---------------------------- MODULE Spec2Model ----------------------------
(* A model of pipeline_costum.py: the two denoising pipelines               *)
(* DDPMPipeline_Costum (unconditional) and DDPMPipeline_Costum_ClsEmb       *)
(* (class-conditional).  One pipeline instance owns one network and one     *)
(* scheduler (register_modules); callers invoke it through __call__.        *)
(* Every call has its own frame of locals; self.scheduler and torch's       *)
(* default generator are reached by every call.                             *)
(*                                                                          *)
(* Tensors are sequences with one element per batch entry.  An element is   *)
(* an integer counting units of 1/One, so the real interval [-1, 1] is      *)
(* -One..One.  The network and the scheduler are collaborators handed to    *)
(* the constructor; they are modelled as deterministic functions of exactly *)
(* the arguments (and, for the scheduler, the configuration and generator)  *)
(* that the pipeline hands them.                                            *)
EXTENDS Integers, Sequences, FiniteSets, TLC

\* ------------------------------------------------------------------ bounds
MaxSteps == 2
MaxBatch == 2
RngMod == 2
MaxVal == 3

\* ------------------------------------------------------- program constants
\* fixed-point unit of a tensor element: the 1 of clamp(-1, 1) / clamp(0, 1)
One == 2
\* torch.randint(0, 10, ...): labels are 0 .. NumClasses - 1
NumClasses == 10

Calls == {"a", "b"}
Seeds == 0 .. (RngMod - 1)
BatchSizes == 1 .. MaxBatch
StepCounts == 1 .. MaxSteps
OutputTypes == {"pil", "tensor", "np"}
Pipes == {"DDPMPipeline_Costum", "DDPMPipeline_Costum_ClsEmb"}

VARIABLES
    pipe,               \* the class of the pipeline instance
    scheduler,          \* self.scheduler: [num_inference_steps, timesteps]
    default_generator,  \* state of torch's default generator (generator=None)
    pc,                 \* where each call is
    args,               \* the arguments of each call
    frame,              \* the locals of each call
    result,             \* what each call returned
    exception,          \* what each call raised to its caller
    hist                \* history of each call (what was drawn, what was passed)

vars == <<pipe, scheduler, default_generator, pc, args, frame, result, exception, hist>>

\* ------------------------------------------------------------ arithmetic
Wrap(x) == ((x + MaxVal) % (2 * MaxVal + 1)) - MaxVal

Clamp(x, lo, hi) == IF x < lo THEN lo ELSE IF x > hi THEN hi ELSE x

\* numpy's round (half to even) of the rational num / den, den > 0, num >= 0
RoundHalfEven(num, den) ==
    LET q == num \div den
        r == num % den
    IN  IF 2 * r < den THEN q
        ELSE IF 2 * r > den THEN q + 1
        ELSE IF q % 2 = 0 THEN q ELSE q + 1

\* -------------------------------------------------------------- generators
\* randn_tensor(image_shape, generator=...): the tensor a generator in state s yields
randn_tensor(s, batch_size) == [i \in 1 .. batch_size |-> Wrap(MaxVal + s + i)]

\* randint with the upper bound taken as inclusive
randint_inclusive(s, batch_size) ==
    [i \in 1 .. batch_size |-> (7 * s + 3 * i) % (NumClasses + 1)]

\* torch.randint(0, 10, (batch_size,), generator=...)
randint(s, batch_size) == [i \in 1 .. batch_size |-> (7 * s + 3 * i) % NumClasses]

\* the noise scheduler.step draws from the generator
step_noise(s) == s + 1

\* every draw advances the generator
Advance(s) == (s + 1) % RngMod

\* ------------------------------------------------------------ collaborators
\* self.scheduler.set_timesteps(n): the schedule of n descending timesteps
Timesteps(n) == [i \in 1 .. n |-> n - i]

\* self.unet(image, t, return_dict=False)[0]
unet(image, t) == [i \in DOMAIN image |-> Wrap(image[i] + t + 1)]

\* self.unet(image, t, class_sample, return_dict=False)[0]
unet_cls(image, t, class_sample) ==
    [i \in DOMAIN image |->
        Wrap(image[i] + t + 1 + (IF i \in DOMAIN class_sample THEN class_sample[i] ELSE 0))]

\* self.scheduler.step(model_output, t, image, generator=generator).prev_sample,
\* under the scheduler's current num_inference_steps; noise is added for t > 0
scheduler_step(model_output, t, sample, n, s) ==
    [i \in DOMAIN sample |->
        Wrap(2 * sample[i] - model_output[i] + n + (IF t > 0 THEN step_noise(s) ELSE 0))]


\* ---------------------------------------------------------- post-processing
\* post-processing whose "tensor" branch forgets the clamp
PostProcessNoClamp(output_type, image) ==
    IF output_type = "pil"
    THEN [i \in DOMAIN image |->
            RoundHalfEven(255 * Clamp(image[i] + One, 0, 2 * One), 2 * One)]
    ELSE image

\* post-processing that treats every output type but "pil" as "tensor"
PostProcessElseTensor(output_type, image) ==
    IF output_type = "pil"
    THEN [i \in DOMAIN image |->
            RoundHalfEven(255 * Clamp(image[i] + One, 0, 2 * One), 2 * One)]
    ELSE [i \in DOMAIN image |-> Clamp(image[i], 0 - One, One)]

\* lines 104-109 / 170-175: "pil" rescales, clamps to [0, 1] and converts to
\* 8-bit pixels (numpy_to_pil); "tensor" clamps to [-1, 1]; anything else falls through
PostProcess(output_type, image) ==
    IF output_type = "pil"
    THEN [i \in DOMAIN image |->
            RoundHalfEven(255 * Clamp(image[i] + One, 0, 2 * One), 2 * One)]
    ELSE IF output_type = "tensor"
    THEN [i \in DOMAIN image |-> Clamp(image[i], 0 - One, One)]
    ELSE image

\* lines 111-117 / 177-183: the value handed back to the caller
ReturnValue(p, output_type, return_dict, image, noise_init, class_sample) ==
    IF ~return_dict
    THEN IF output_type = "tensor"
         THEN [kind |-> "tuple",
               elems |-> IF p = "DDPMPipeline_Costum_ClsEmb"
                         THEN <<image, noise_init, class_sample>>
                         ELSE <<image, noise_init>>]
         ELSE [kind |-> "tuple", elems |-> <<image>>]
    ELSE [kind |-> "ImagePipelineOutput", elems |-> <<image>>]

\* ------------------------------------------------------------------- state
NoResult == [kind |-> "none", elems |-> <<>>]
NoException == [by |-> "none", at |-> 0]

NoArgs ==
    [batch_size |-> 0, generator |-> "None", seed |-> 0, class_given |-> FALSE,
     class_sample |-> <<>>, num_inference_steps |-> 0, output_type |-> "pil",
     return_dict |-> TRUE]

NoFrame ==
    [image |-> <<>>, noise_init |-> <<>>, class_sample |-> <<>>, generator |-> 0,
     timesteps |-> <<>>, k |-> 0, model_output |-> <<>>]

NoHist ==
    [drawn |-> <<>>, seed0 |-> 0, sampled |-> 0, unet |-> <<>>, step |-> <<>>,
     interfered |-> FALSE, thrown |-> NoException]

\* a label tensor a caller supplies for a batch
ClassArg(batch_size) == [i \in 1 .. batch_size |-> (2 * i + 5) % NumClasses]

\* generator=None, or a torch.Generator of the caller's seeded with s
Generators == {<<"None", 0>>} \cup {<<"Generator", s>> : s \in Seeds}

\* class_sample is an argument of the conditional pipeline only
ClassGiven(p) == IF p = "DDPMPipeline_Costum_ClsEmb" THEN BOOLEAN ELSE {FALSE}

\* the arguments a caller may pass to __call__ of a pipeline of class p
ArgSpace(p) ==
    { [batch_size |-> b, generator |-> g[1], seed |-> g[2], class_given |-> cg,
       class_sample |-> IF cg THEN ClassArg(b) ELSE <<>>,
       num_inference_steps |-> n, output_type |-> ot, return_dict |-> rd] :
        b \in BatchSizes, g \in Generators, cg \in ClassGiven(p),
        n \in StepCounts, ot \in OutputTypes, rd \in BOOLEAN }

Init ==
    /\ pipe \in Pipes
    /\ scheduler = [num_inference_steps |-> 0, timesteps |-> <<>>]
    /\ default_generator = 0
    /\ pc = [c \in Calls |-> "idle"]
    /\ args = [c \in Calls |-> NoArgs]
    /\ frame = [c \in Calls |-> NoFrame]
    /\ result = [c \in Calls |-> NoResult]
    /\ exception = [c \in Calls |-> NoException]
    /\ hist = [c \in Calls |-> NoHist]

\* the state of the generator call c draws from
GenState(c) ==
    IF args[c].generator = "None" THEN default_generator ELSE frame[c].generator

\* a loop that stops one timestep early
HasNextShort(timesteps, k) == k + 1 < Len(timesteps)

\* for t in self.progress_bar(timesteps): is there a timestep after the first k
HasNext(timesteps, k) == k < Len(timesteps)

\* ----------------------------------------------------------------- actions
\* torch.manual_seed(s), by a caller, between calls
manual_seed(s) ==
    /\ \A c \in Calls : pc[c] \in {"idle", "done", "raised"}
    /\ default_generator # s
    /\ default_generator' = s
    /\ UNCHANGED <<pipe, scheduler, pc, args, frame, result, exception, hist>>

\* lines 76-94 / 137-155: entry, image = randn_tensor(...), noise_init = image.clone()
Call(c, a) ==
    /\ pc[c] = "idle"
    /\ LET s == IF a.generator = "None" THEN default_generator ELSE a.seed
           image == randn_tensor(s, a.batch_size)
       IN  /\ args' = [args EXCEPT ![c] = a]
           /\ frame' = [frame EXCEPT ![c] =
                  [NoFrame EXCEPT !.image = image, !.noise_init = image,
                                  !.class_sample = a.class_sample,
                                  !.generator = IF a.generator = "None" THEN 0 ELSE Advance(s)]]
           /\ default_generator' =
                  IF a.generator = "None" THEN Advance(s) ELSE default_generator
           /\ hist' = [hist EXCEPT ![c] = [NoHist EXCEPT !.drawn = image, !.seed0 = s]]
    /\ pc' = [pc EXCEPT ![c] = "set_timesteps"]
    /\ UNCHANGED <<pipe, scheduler, result, exception>>

\* set_timesteps skipped when the scheduler already holds a schedule
SetTimestepsOnce(c) ==
    /\ pc[c] = "set_timesteps"
    /\ scheduler' = IF scheduler.num_inference_steps # 0 THEN scheduler
                    ELSE [num_inference_steps |-> args[c].num_inference_steps,
                          timesteps |-> Timesteps(args[c].num_inference_steps)]
    /\ pc' = [pc EXCEPT ![c] =
                 IF pipe = "DDPMPipeline_Costum_ClsEmb" THEN "class_embedding" ELSE "for"]
    /\ UNCHANGED <<pipe, default_generator, args, frame, result, exception, hist>>

\* line 96 / 157: self.scheduler.set_timesteps(num_inference_steps)
SetTimesteps(c) ==
    /\ pc[c] = "set_timesteps"
    /\ scheduler' = [num_inference_steps |-> args[c].num_inference_steps,
                     timesteps |-> Timesteps(args[c].num_inference_steps)]
    /\ pc' = [pc EXCEPT ![c] =
                 IF pipe = "DDPMPipeline_Costum_ClsEmb" THEN "class_embedding" ELSE "for"]
    /\ hist' = [d \in Calls |->
                   IF d # c /\ pc[d] \in {"class_embedding", "for", "unet", "step"}
                   THEN [hist[d] EXCEPT !.interfered = TRUE]
                   ELSE hist[d]]
    /\ UNCHANGED <<pipe, default_generator, args, frame, result, exception>>

\* the labels drawn without the generator (line 162): from torch's default generator
ClassEmbeddingDefault(c) ==
    /\ pc[c] = "class_embedding"
    /\ IF args[c].class_given
       THEN UNCHANGED <<frame, default_generator, hist>>
       ELSE /\ frame' = [frame EXCEPT
                  ![c].class_sample = randint(default_generator, args[c].batch_size)]
            /\ default_generator' = Advance(default_generator)
            /\ hist' = [hist EXCEPT ![c].sampled = @ + 1]
    /\ pc' = [pc EXCEPT ![c] = "for"]
    /\ UNCHANGED <<pipe, scheduler, args, result, exception>>

\* the labels drawn whether or not the caller supplied some
ClassEmbeddingAlways(c) ==
    /\ pc[c] = "class_embedding"
    /\ frame' = [frame EXCEPT
           ![c].class_sample = randint(GenState(c), args[c].batch_size),
           ![c].generator = IF args[c].generator = "None" THEN @
                            ELSE Advance(GenState(c))]
    /\ default_generator' =
           IF args[c].generator = "None" THEN Advance(GenState(c))
           ELSE default_generator
    /\ hist' = [hist EXCEPT ![c].sampled = @ + 1]
    /\ pc' = [pc EXCEPT ![c] = "for"]
    /\ UNCHANGED <<pipe, scheduler, args, result, exception>>

\* lines 160-161: if class_sample is None: class_sample = torch.randint(0, 10, ...)
ClassEmbedding(c) ==
    /\ pc[c] = "class_embedding"
    /\ IF args[c].class_given
       THEN UNCHANGED <<frame, default_generator, hist>>
       ELSE /\ frame' = [frame EXCEPT
                  ![c].class_sample = randint(GenState(c), args[c].batch_size),
                  ![c].generator = IF args[c].generator = "None" THEN @
                                   ELSE Advance(GenState(c))]
            /\ default_generator' =
                  IF args[c].generator = "None" THEN Advance(GenState(c))
                  ELSE default_generator
            /\ hist' = [hist EXCEPT ![c].sampled = @ + 1]
    /\ pc' = [pc EXCEPT ![c] = "for"]
    /\ UNCHANGED <<pipe, scheduler, args, result, exception>>

\* line 98 / 164: the loop takes the scheduler's current timesteps to iterate over
For(c) ==
    /\ pc[c] = "for"
    /\ frame' = [frame EXCEPT ![c].timesteps = scheduler.timesteps, ![c].k = 0]
    /\ pc' = [pc EXCEPT ![c] = IF HasNext(scheduler.timesteps, 0) THEN "unet" ELSE "post"]
    /\ UNCHANGED <<pipe, scheduler, default_generator, args, result, exception, hist>>

\* the network fed the initial noise at every iteration instead of the current image
UnetStale(c) ==
    /\ pc[c] = "unet"
    /\ LET t == frame[c].timesteps[frame[c].k + 1]
           image == frame[c].noise_init
           out == IF pipe = "DDPMPipeline_Costum_ClsEmb"
                  THEN unet_cls(image, t, frame[c].class_sample)
                  ELSE unet(image, t)
       IN  /\ frame' = [frame EXCEPT ![c].model_output = out]
           /\ hist' = [hist EXCEPT ![c].unet = Append(@,
                  [t |-> t, image |-> image, class_sample |-> frame[c].class_sample,
                   model_output |-> out])]
    /\ pc' = [pc EXCEPT ![c] = "step"]
    /\ UNCHANGED <<pipe, scheduler, default_generator, args, result, exception>>

\* line 100 / 166: model_output = self.unet(image, t[, class_sample])[0]
Unet(c) ==
    /\ pc[c] = "unet"
    /\ LET t == frame[c].timesteps[frame[c].k + 1]
           image == frame[c].image
           out == IF pipe = "DDPMPipeline_Costum_ClsEmb"
                  THEN unet_cls(image, t, frame[c].class_sample)
                  ELSE unet(image, t)
       IN  /\ frame' = [frame EXCEPT ![c].model_output = out]
           /\ hist' = [hist EXCEPT ![c].unet = Append(@,
                  [t |-> t, image |-> image, class_sample |-> frame[c].class_sample,
                   model_output |-> out])]
    /\ pc' = [pc EXCEPT ![c] = "step"]
    /\ UNCHANGED <<pipe, scheduler, default_generator, args, result, exception>>

\* an error of the network swallowed and the network call tried again
UnetRaiseRetry(c) ==
    /\ pc[c] = "unet"
    /\ hist' = [hist EXCEPT ![c].thrown = [by |-> "unet", at |-> frame[c].k + 1]]
    /\ UNCHANGED <<pipe, scheduler, default_generator, pc, args, frame, result, exception>>

\* line 100 / 166 raising: nothing catches it, the frame is unwound
UnetRaise(c) ==
    /\ pc[c] = "unet"
    /\ LET e == [by |-> "unet", at |-> frame[c].k + 1]
       IN  /\ exception' = [exception EXCEPT ![c] = e]
           /\ hist' = [hist EXCEPT ![c].thrown = e]
    /\ frame' = [frame EXCEPT ![c] = NoFrame]
    /\ pc' = [pc EXCEPT ![c] = "raised"]
    /\ UNCHANGED <<pipe, scheduler, default_generator, args, result>>

\* noise_init = image without the clone, and a step that writes the image in place
StepInPlace(c) ==
    /\ pc[c] = "step"
    /\ LET t == frame[c].timesteps[frame[c].k + 1]
           s == GenState(c)
           prev_sample == scheduler_step(frame[c].model_output, t, frame[c].image,
                                         scheduler.num_inference_steps, s)
           s2 == IF t > 0 THEN Advance(s) ELSE s
       IN  /\ frame' = [frame EXCEPT
                  ![c].image = prev_sample,
                  ![c].noise_init = prev_sample,
                  ![c].k = @ + 1,
                  ![c].generator = IF args[c].generator = "None" THEN @ ELSE s2]
           /\ default_generator' =
                  IF args[c].generator = "None" THEN s2 ELSE default_generator
           /\ hist' = [hist EXCEPT ![c].step = Append(@,
                  [t |-> t, model_output |-> frame[c].model_output,
                   sample |-> frame[c].image, prev_sample |-> prev_sample,
                   num_inference_steps |-> scheduler.num_inference_steps])]
           /\ pc' = [pc EXCEPT ![c] =
                  IF HasNext(frame[c].timesteps, frame[c].k + 1) THEN "unet" ELSE "post"]
    /\ UNCHANGED <<pipe, scheduler, args, result, exception>>

\* line 102 / 168: image = self.scheduler.step(model_output, t, image, generator=generator).prev_sample
Step(c) ==
    /\ pc[c] = "step"
    /\ LET t == frame[c].timesteps[frame[c].k + 1]
           s == GenState(c)
           prev_sample == scheduler_step(frame[c].model_output, t, frame[c].image,
                                         scheduler.num_inference_steps, s)
           s2 == IF t > 0 THEN Advance(s) ELSE s
       IN  /\ frame' = [frame EXCEPT
                  ![c].image = prev_sample,
                  ![c].k = @ + 1,
                  ![c].generator = IF args[c].generator = "None" THEN @ ELSE s2]
           /\ default_generator' =
                  IF args[c].generator = "None" THEN s2 ELSE default_generator
           /\ hist' = [hist EXCEPT ![c].step = Append(@,
                  [t |-> t, model_output |-> frame[c].model_output,
                   sample |-> frame[c].image, prev_sample |-> prev_sample,
                   num_inference_steps |-> scheduler.num_inference_steps])]
           /\ pc' = [pc EXCEPT ![c] =
                  IF HasNext(frame[c].timesteps, frame[c].k + 1) THEN "unet" ELSE "post"]
    /\ UNCHANGED <<pipe, scheduler, args, result, exception>>

\* line 102 / 168 raising: nothing catches it, the frame is unwound
StepRaise(c) ==
    /\ pc[c] = "step"
    /\ LET e == [by |-> "scheduler.step", at |-> frame[c].k + 1]
       IN  /\ exception' = [exception EXCEPT ![c] = e]
           /\ hist' = [hist EXCEPT ![c].thrown = e]
    /\ frame' = [frame EXCEPT ![c] = NoFrame]
    /\ pc' = [pc EXCEPT ![c] = "raised"]
    /\ UNCHANGED <<pipe, scheduler, default_generator, args, result>>

\* lines 104-117 / 170-183: post-processing and return
Return(c) ==
    /\ pc[c] = "post"
    /\ result' = [result EXCEPT ![c] =
           ReturnValue(pipe, args[c].output_type, args[c].return_dict,
                       PostProcess(args[c].output_type, frame[c].image),
                       frame[c].noise_init, frame[c].class_sample)]
    /\ frame' = [frame EXCEPT ![c] = NoFrame]
    /\ pc' = [pc EXCEPT ![c] = "done"]
    /\ UNCHANGED <<pipe, scheduler, default_generator, args, exception, hist>>

\* the caller is done with what call c returned or raised, and may call again
Release(c) ==
    /\ pc[c] \in {"done", "raised"}
    /\ pc' = [pc EXCEPT ![c] = "idle"]
    /\ args' = [args EXCEPT ![c] = NoArgs]
    /\ result' = [result EXCEPT ![c] = NoResult]
    /\ exception' = [exception EXCEPT ![c] = NoException]
    /\ hist' = [hist EXCEPT ![c] = NoHist]
    /\ UNCHANGED <<pipe, scheduler, default_generator, frame>>

\* call c is not between its entry and its exit
Finished(c) == pc[c] \in {"idle", "done", "raised"}

\* One thread calls the pipeline again and again, with any arguments: a call
\* runs to its exit (return or exception) before the next one is entered.
Next ==
    \/ \E s \in Seeds : manual_seed(s)
    \/ \E a \in ArgSpace(pipe) : Call("a", a)
    \/ SetTimesteps("a")
    \/ ClassEmbedding("a")
    \/ For("a")
    \/ Unet("a")
    \/ UnetRaise("a")
    \/ Step("a")
    \/ StepRaise("a")
    \/ Return("a")
    \/ Release("a")

Spec == Init /\ [][Next]_vars

\* The arguments of the calls of two threads: each thread has a generator of
\* its own; the calls differ in the step count and in the labels.
ThreadArgs(p) ==
    { [batch_size |-> 1, generator |-> g[1], seed |-> g[2], class_given |-> cg,
       class_sample |-> IF cg THEN ClassArg(1) ELSE <<>>,
       num_inference_steps |-> n, output_type |-> "tensor", return_dict |-> FALSE] :
        g \in {<<"Generator", 0>>}, cg \in ClassGiven(p),
        n \in StepCounts }

\* Two threads call the same pipeline instance: their statements interleave.
ThreadsNext ==
    \E c \in Calls :
        \/ \E a \in ThreadArgs(pipe) : Call(c, a)
        \/ SetTimesteps(c)
        \/ ClassEmbedding(c)
        \/ For(c)
        \/ Unet(c)
        \/ UnetRaise(c)
        \/ Step(c)
        \/ StepRaise(c)
        \/ Return(c)
        \/ Release(c)

ThreadsSpec == Init /\ [][ThreadsNext]_vars

\* the second of two identical invocations: the arguments of "a", and a
\* generator seeded as the one "a" began with
CallAgain ==
    /\ pc["a"] = "done"
    /\ pc["b"] = "idle"
    /\ args["a"].generator = "None" => default_generator = hist["a"].seed0
    /\ Call("b", args["a"])

\* The same invocation twice: after a call of "a" has returned, "b" is called
\* with the same arguments.
RepeatNext ==
    \/ \E s \in Seeds : manual_seed(s)
    \/ \E a \in ArgSpace(pipe) : pc["b"] = "idle" /\ Call("a", a)
    \/ CallAgain
    \/ \E c \in Calls :
        \/ SetTimesteps(c)
        \/ ClassEmbedding(c)
        \/ For(c)
        \/ Unet(c)
        \/ UnetRaise(c)
        \/ Step(c)
        \/ StepRaise(c)
        \/ Return(c)
    \/ pc["b"] = "idle" /\ Release("a")

RepeatSpec == Init /\ [][RepeatNext]_vars

\* ------------------------------------------------------------ properties
\* every element of tensor x lies in lo .. hi
Within(x, lo, hi) == \A i \in DOMAIN x : lo <= x[i] /\ x[i] <= hi

\* the image the last iteration of call c put out (the noise when there was none)
LoopOutput(c) ==
    IF hist[c].step = <<>> THEN hist[c].drawn
    ELSE hist[c].step[Len(hist[c].step)].prev_sample

\* the image iteration j of call c starts from
IterationInput(c, j) ==
    IF j = 1 THEN hist[c].drawn ELSE hist[c].step[j - 1].prev_sample

\* C1: a call executes as many denoising iterations (one network call followed
\* by one scheduler.step call each) as its num_inference_steps, and only then
\* post-processes and returns.
C1_IterationCount ==
    \A c \in Calls :
        LET n == args[c].num_inference_steps
            u == Len(hist[c].unet)
            st == Len(hist[c].step)
        IN  /\ pc[c] # "raised" => u = st + (IF pc[c] = "step" THEN 1 ELSE 0)
            /\ pc[c] \in {"unet", "step"} => st < n
            /\ pc[c] \in {"post", "done"} => u = n /\ st = n
            /\ pc[c] = "done" => result[c] # NoResult /\ exception[c] = NoException

\* C1 witness: a reachable state in which the case of C1 has happened
C1_Witness ==
    /\ pc["a"] = "done"
    /\ args["a"].num_inference_steps = MaxSteps
    /\ Len(hist["a"].step) = MaxSteps
    /\ scheduler.num_inference_steps = MaxSteps

\* C2 as stated: with return_dict false and supplied labels the returned tuple
\* holds the labels, unchanged, whatever the output type.
C2_LabelsReturnedAnyOutputType ==
    \A c \in Calls :
        (pc[c] = "done" /\ ~args[c].return_dict /\ args[c].class_given) =>
            /\ result[c].kind = "tuple"
            /\ Len(result[c].elems) = 3
            /\ result[c].elems[3] = args[c].class_sample

\* C2 amended: with return_dict false and output_type "tensor" the returned
\* tuple is (image, noise, labels) with the supplied labels unchanged; with
\* any other output type the tuple holds the image alone.
C2_LabelsReturnedTensor ==
    \A c \in Calls :
        (pc[c] = "done" /\ ~args[c].return_dict /\ args[c].class_given) =>
            /\ result[c].kind = "tuple"
            /\ args[c].output_type = "tensor" =>
                   /\ Len(result[c].elems) = 3
                   /\ result[c].elems[3] = args[c].class_sample
            /\ args[c].output_type # "tensor" => Len(result[c].elems) = 1

\* C2 witness: a reachable state in which the case of C2 has happened
C2_Witness ==
    /\ pc["a"] = "done"
    /\ ~args["a"].return_dict
    /\ args["a"].class_given
    /\ args["a"].output_type = "tensor"
    /\ args["a"].batch_size = MaxBatch
    /\ Len(result["a"].elems) = 3

\* what call c does when it runs alone: its own schedule, of its own length,
\* each scheduler.step under its own num_inference_steps
AsAlone(c) ==
    LET n == args[c].num_inference_steps
    IN  /\ Len(hist[c].step) <= n
        /\ pc[c] \in {"post", "done"} => Len(hist[c].step) = n
        /\ \A j \in 1 .. Len(hist[c].step) :
               /\ hist[c].step[j].t = Timesteps(n)[j]
               /\ hist[c].step[j].num_inference_steps = n
        /\ \A j \in 1 .. Len(hist[c].unet) :
               j <= n /\ hist[c].unet[j].t = Timesteps(n)[j]

\* C3 as stated: calls share no mutable state, so each of two interleaved calls
\* has the schedule, iteration count and scheduler behaviour it has alone.
C3_InterleavedAsAlone == \A c \in Calls : AsAlone(c)

\* C3 amended: the scheduler is shared by the calls of an instance and every
\* call rewrites it (set_timesteps); a call has the schedule, the iteration
\* count and the scheduler configuration it has alone when no other call runs
\* set_timesteps between this call's set_timesteps and its last scheduler.step.
C3_UndisturbedAsAlone ==
    \A c \in Calls : ~hist[c].interfered => AsAlone(c)

\* C3 witness: a reachable state in which the case of C3 has happened
C3_Witness ==
    /\ pc["a"] = "done" /\ pc["b"] = "done"
    /\ args["a"].num_inference_steps # args["b"].num_inference_steps
    /\ ~hist["a"].interfered
    /\ hist["b"].interfered

\* C4: two invocations with identical arguments, each begun with its generator
\* in the same state, return identical values.
C4_Deterministic ==
    (/\ pc["a"] = "done" /\ pc["b"] = "done"
     /\ args["a"] = args["b"]
     /\ hist["a"].seed0 = hist["b"].seed0)
        => result["a"] = result["b"]

\* C4 witness: a reachable state in which the case of C4 has happened
C4_Witness ==
    /\ pc["a"] = "done" /\ pc["b"] = "done"
    /\ args["a"] = args["b"]
    /\ hist["a"].seed0 = hist["b"].seed0
    /\ args["a"].generator = "Generator"
    /\ args["a"].num_inference_steps = MaxSteps
    /\ hist["a"].sampled = 1
    /\ Len(result["b"].elems) = 3
    /\ default_generator # 0

\* C5 as stated: in tensor mode every returned value, in every element of the
\* returned tuple, lies within [-1, 1].
C5_AllElementsClamped ==
    \A c \in Calls :
        (pc[c] = "done" /\ args[c].output_type = "tensor") =>
            /\ Within(result[c].elems[1], 0 - One, One)
            /\ Len(result[c].elems) >= 2 => Within(result[c].elems[2], 0 - One, One)
            /\ Len(result[c].elems) >= 3 => Within(result[c].elems[3], 0 - 1, 1)

\* C5 amended: in tensor mode the returned image lies within [-1, 1], for both
\* return_dict settings; the noise and the labels of the tuple are returned as
\* they are, not clamped.
C5_ImageClamped ==
    \A c \in Calls :
        (pc[c] = "done" /\ args[c].output_type = "tensor") =>
            /\ Within(result[c].elems[1], 0 - One, One)
            /\ ~args[c].return_dict =>
                   /\ result[c].elems[2] = hist[c].drawn
                   /\ Len(result[c].elems) = 3 =>
                          result[c].elems[3] = hist[c].unet[1].class_sample

\* C5 witness: a reachable state in which the case of C5 has happened
C5_Witness ==
    /\ pc["a"] = "done"
    /\ args["a"].output_type = "tensor"
    /\ args["a"].return_dict
    /\ ~Within(LoopOutput("a"), 0 - One, One)

\* C6: the noise initializer stays the tensor drawn at entry through every
\* iteration and through post-processing, and in tensor mode with return_dict
\* false it is the second element of the returned tuple.
C6_NoiseSnapshot ==
    \A c \in Calls :
        /\ ~Finished(c) => frame[c].noise_init = hist[c].drawn
        /\ (pc[c] = "done" /\ args[c].output_type = "tensor" /\ ~args[c].return_dict) =>
               result[c].elems[2] = hist[c].drawn

\* C6 witness: a reachable state in which the case of C6 has happened
C6_Witness ==
    /\ pc["a"] = "done"
    /\ args["a"].output_type = "tensor"
    /\ ~args["a"].return_dict
    /\ Len(hist["a"].step) = MaxSteps
    /\ result["a"].elems[2] = hist["a"].drawn
    /\ result["a"].elems[1] # result["a"].elems[2]

\* C7: in the conditional pipeline the labels are fixed before the first
\* iteration: drawn once, in 0..9, one per batch element, exactly when the
\* caller supplied none, and every network call of the call gets these labels.
C7_LabelsFixed ==
    \A c \in Calls :
        pipe = "DDPMPipeline_Costum_ClsEmb" =>
            /\ hist[c].sampled <= 1
            /\ pc[c] \in {"for", "unet", "step", "post"} =>
                   /\ hist[c].sampled = (IF args[c].class_given THEN 0 ELSE 1)
                   /\ args[c].class_given => frame[c].class_sample = args[c].class_sample
                   /\ ~args[c].class_given =>
                          /\ Len(frame[c].class_sample) = args[c].batch_size
                          /\ Within(frame[c].class_sample, 0, 9)
                   /\ \A j \in 1 .. Len(hist[c].unet) :
                          hist[c].unet[j].class_sample = frame[c].class_sample
            /\ \A j \in 1 .. Len(hist[c].unet) :
                   /\ hist[c].unet[j].class_sample = hist[c].unet[1].class_sample
                   /\ Len(hist[c].unet[j].class_sample) = args[c].batch_size
                   /\ ~args[c].class_given => Within(hist[c].unet[j].class_sample, 0, 9)

\* C7 witness: a reachable state in which the case of C7 has happened
C7_Witness ==
    /\ pipe = "DDPMPipeline_Costum_ClsEmb"
    /\ pc["a"] = "done"
    /\ ~args["a"].class_given
    /\ hist["a"].sampled = 1
    /\ args["a"].batch_size = MaxBatch
    /\ Len(hist["a"].unet) = MaxSteps
    /\ Len(result["a"].elems) = 3
    /\ result["a"].elems[3] = hist["a"].unet[MaxSteps].class_sample

\* C8: the iterations run over the schedule in order; iteration j hands the
\* network and scheduler.step the image the previous iteration's
\* scheduler.step put out (the initial noise at the first) and the j-th
\* timestep, and the image after the loop is the last iteration's output.
C8_Sequential ==
    \A c \in Calls :
        LET n == args[c].num_inference_steps
        IN  /\ \A j \in 1 .. Len(hist[c].unet) :
                   /\ hist[c].unet[j].t = Timesteps(n)[j]
                   /\ hist[c].unet[j].image = IterationInput(c, j)
            /\ \A j \in 1 .. Len(hist[c].step) :
                   /\ hist[c].step[j].t = Timesteps(n)[j]
                   /\ hist[c].step[j].sample = IterationInput(c, j)
                   /\ hist[c].step[j].model_output = hist[c].unet[j].model_output
            /\ pc[c] \in {"unet", "step", "post"} => frame[c].image = LoopOutput(c)
            /\ pc[c] = "done" =>
                   result[c].elems[1] = PostProcess(args[c].output_type, LoopOutput(c))

\* C8 witness: a reachable state in which the case of C8 has happened
C8_Witness ==
    /\ pc["a"] = "post"
    /\ Len(hist["a"].step) = MaxSteps
    /\ hist["a"].step[MaxSteps].sample # hist["a"].drawn
    /\ hist["a"].step[MaxSteps].sample = hist["a"].step[MaxSteps - 1].prev_sample
    /\ frame["a"].image # hist["a"].step[MaxSteps].sample

C10_ErrorPropagates ==
    \A c \in Calls :
        /\ exception[c] = hist[c].thrown
        /\ (hist[c].thrown # NoException) <=> (pc[c] = "raised")
        /\ pc[c] = "raised" =>
               /\ result[c] = NoResult
               /\ frame[c] = NoFrame
               /\ Len(hist[c].step) = exception[c].at - 1
               /\ Len(hist[c].unet) =
                      (IF exception[c].by = "unet" THEN exception[c].at - 1
                       ELSE exception[c].at)
               /\ exception[c].at <= args[c].num_inference_steps

\* C10 witness: a reachable state in which the case of C10 has happened
C10_Witness ==
    /\ pc["a"] = "raised"
    /\ exception["a"] = [by |-> "scheduler.step", at |-> MaxSteps]
    /\ Len(hist["a"].unet) = MaxSteps
    /\ Len(hist["a"].step) = MaxSteps - 1

=============================================================================
